---- MODULE Spec2Model ----
(***************************************************************************)
(* Id reconciliation and index synchronisation of fiftyone-brain:          *)
(* add_ids / remove_ids / filter_ids / _parse_ids of                       *)
(* fiftyone/brain/internal/core/utils.py and the Pinecone results class of *)
(* fiftyone/brain/internal/core/pinecone.py.                               *)
(*                                                                         *)
(* Ids are opaque; they are modelled as small integers.  Array positions   *)
(* are 0-based as in the code; At(a, i) reads position i of array a.       *)
(* A label belongs to exactly one sample (SampleOf), so in patch mode an   *)
(* incoming batch is a list of label ids with the sample id of each.       *)
(***************************************************************************)
EXTENDS Integers, Sequences, FiniteSets, TLC

\* ---------------------------------------------------------------- bounds
NumIds == 3
MaxBatch == 2
MaxView == 3
MaxLen == 3
MaxPage == 2
MaxVectors == 3
MaxTopK == 2
MaxValue == 2
MaxSamples == 2
MaxLabels == 2
MaxData == 4

\* ---------------------------------------------------------------- state
VARIABLES
    patches_field,      \* TRUE: patch-level index (label_ids is not None)
    index_sample_ids,   \* IndexState.sample_ids
    index_label_ids,    \* IndexState.label_ids (<<>> stands for None when ~patches_field)
    backend,            \* ids stored in the Pinecone index
    upsert_pagination,  \* config.upsert_pagination
    pc,                 \* "idle", or "done" when a call has just ended
    call,               \* the last call: operation and arguments
    pre,                \* the IndexState and backend before the last call
    ret                 \* what the last call computed and returned

vars == <<patches_field, index_sample_ids, index_label_ids, backend,
          upsert_pagination, pc, call, pre, ret>>

\* ---------------------------------------------------------------- values
Ids == 1 .. NumIds

\* the sample a label belongs to
SampleOf(lid) == 100 + ((lid + 1) \div 2)

SampleIds == IF patches_field THEN {SampleOf(l) : l \in Ids} ELSE Ids

\* Python's None for an index position
NoIdx == -1

\* an uninitialised slot of np.empty
EmptySlot == 0

None == [none |-> TRUE, v |-> <<>>]
Some(x) == [none |-> FALSE, v |-> x]

SeqsUpTo(S, n) == UNION {[1 .. k -> S] : k \in 0 .. n}

At(a, i) == a[i + 1]

Range(a) == {a[k] : k \in 1 .. Len(a)}

IsUnique(a) == \A i, j \in 1 .. Len(a) : a[i] = a[j] => i = j

\* the sequences without a repeated element
UniqueSeqs(S, n) == {a \in SeqsUpTo(S, n) : IsUnique(a)}

MapSeq(a, Op(_)) == [k \in 1 .. Len(a) |-> Op(a[k])]

\* ---------------------------------------------------------------- numpy
\* MapGet that finds no id
MapGetNothing(index_ids, id) == NoIdx

\* {_id: _i for _i, _id in enumerate(index_ids)}.get(_id, None):
\* a later occurrence of an id overwrites an earlier one
MapGet(index_ids, id) ==
    IF \E k \in 1 .. Len(index_ids) : index_ids[k] = id
    THEN (CHOOSE k \in 1 .. Len(index_ids) :
             /\ index_ids[k] = id
             /\ \A k2 \in 1 .. Len(index_ids) : index_ids[k2] = id => k2 <= k) - 1
    ELSE NoIdx

\* NpDelete that drops only the first position named in inds
NpDeleteFirstOnly(arr, inds) ==
    IF inds = <<>> THEN arr
    ELSE SubSeq(arr, 1, inds[1]) \o SubSeq(arr, inds[1] + 2, Len(arr))

\* np.delete(arr, inds): drops the positions named in inds (each once)
NpDelete(arr, inds) ==
    LET keep(k) == (k - 1) \notin Range(inds)
        RECURSIVE Go(_)
        Go(k) == IF k > Len(arr) THEN <<>>
                 ELSE (IF keep(k) THEN <<arr[k]>> ELSE <<>>) \o Go(k + 1)
    IN Go(1)

\* np.concatenate((arr, np.empty(m)))
NpGrow(arr, m) == arr \o [k \in 1 .. m |-> EmptySlot]

\* arr[jj] = vals[ii] is an IndexError when a position of jj is out of bounds
InBounds(arr, jj) == \A k \in 1 .. Len(jj) : jj[k] >= 0 /\ jj[k] < Len(arr)

\* a scatter that takes its values from the start of src, not from ii
RECURSIVE ScatterFromStart(_, _, _, _)
ScatterFromStart(arr, jj, src, ii) ==
    IF jj = <<>> THEN arr
    ELSE ScatterFromStart([arr EXCEPT ![Head(jj) + 1] = Head(src)],
                          Tail(jj), Tail(src), Tail(ii))

\* arr[jj] = src[ii]: the writes are made in order
RECURSIVE Scatter(_, _, _, _)
Scatter(arr, jj, src, ii) ==
    IF jj = <<>> THEN arr
    ELSE Scatter([arr EXCEPT ![Head(jj) + 1] = At(src, Head(ii))],
                 Tail(jj), src, Tail(ii))

\* ---------------------------------------------------------------- add_ids
\* AddWalk with a counter that is not advanced after a new id
RECURSIVE AddWalkStuckCounter(_, _, _, _, _, _)
AddWalkStuckCounter(ids, index_ids, overwrite, _i, new_idx, acc) ==
    IF _i >= Len(ids) THEN acc
    ELSE LET _idx == MapGet(index_ids, At(ids, _i))
         IN IF _idx = NoIdx
            THEN AddWalkStuckCounter(ids, index_ids, overwrite, _i + 1, new_idx,
                         [ii |-> Append(acc.ii, _i), jj |-> Append(acc.jj, new_idx)])
            ELSE IF overwrite
            THEN AddWalkStuckCounter(ids, index_ids, overwrite, _i + 1, new_idx,
                         [ii |-> Append(acc.ii, _i), jj |-> Append(acc.jj, _idx)])
            ELSE AddWalkStuckCounter(ids, index_ids, overwrite, _i + 1, new_idx, acc)

\* the loop of add_ids over enumerate(ids)
RECURSIVE AddWalk(_, _, _, _, _, _)
AddWalk(ids, index_ids, overwrite, _i, new_idx, acc) ==
    IF _i >= Len(ids) THEN acc
    ELSE LET _idx == MapGet(index_ids, At(ids, _i))
         IN IF _idx = NoIdx
            THEN AddWalk(ids, index_ids, overwrite, _i + 1, new_idx + 1,
                         [ii |-> Append(acc.ii, _i), jj |-> Append(acc.jj, new_idx)])
            ELSE IF overwrite
            THEN AddWalk(ids, index_ids, overwrite, _i + 1, new_idx,
                         [ii |-> Append(acc.ii, _i), jj |-> Append(acc.jj, _idx)])
            ELSE AddWalk(ids, index_ids, overwrite, _i + 1, new_idx, acc)

\* positions k of jj with jj[k] < n: np.nonzero(jj < n)[0]
ExistingInds(jj, n) ==
    LET RECURSIVE Go(_)
        Go(k) == IF k > Len(jj) THEN <<>>
                 ELSE (IF jj[k] < n THEN <<k - 1>> ELSE <<>>) \o Go(k + 1)
    IN Go(1)

\* a growth of one position more
GrowByOneMore(jj, n) == jj[Len(jj)] - n + 2

\* the number of positions add_ids appends: m = jj[-1] - n + 1
GrowBy(jj, n) == jj[Len(jj)] - n + 1

\* add_ids(sample_ids, label_ids, index_sample_ids, index_label_ids, ...)
\* status: "ok", or the exception that ends the call.  caller_*: the arrays
\* the caller passed in, as they are after the call (a scatter write that is
\* not preceded by a reallocation writes into the caller's array).
add_ids(sample_ids, label_ids, isids, ilids, patches, overwrite, allow_existing, warn_existing) ==
    LET ids == IF patches THEN label_ids ELSE sample_ids
        index_ids == IF patches THEN ilids ELSE isids
        walk == AddWalk(ids, index_ids, overwrite, 0, Len(index_ids),
                        [ii |-> <<>>, jj |-> <<>>])
        n == Len(isids)
        existing_inds == IF allow_existing THEN <<>> ELSE ExistingInds(walk.jj, n)
        num_existing == Len(existing_inds)
        raise == num_existing > 0 /\ ~warn_existing
        message == IF num_existing > 0
                   THEN Some([count |-> num_existing, example |-> At(ids, walk.ii[1])])
                   ELSE None
        ii == IF num_existing > 0 THEN NpDelete(walk.ii, existing_inds) ELSE walk.ii
        jj == IF num_existing > 0 THEN NpDelete(walk.jj, existing_inds) ELSE walk.jj
        m == IF ii = <<>> THEN 0 ELSE GrowBy(jj, n)
        fresh == ii # <<>> /\ (n = 0 \/ m > 0)
        s0 == IF n = 0 THEN <<>> ELSE isids
        l0 == IF n = 0 /\ patches THEN <<>> ELSE ilids
        s1 == IF m > 0 THEN NpGrow(s0, m) ELSE s0
        l1 == IF m > 0 /\ patches THEN NpGrow(l0, m) ELSE l0
        s_ok == InBounds(s1, jj)
        l_ok == ~patches \/ InBounds(l1, jj)
        s2 == IF s_ok THEN Scatter(s1, jj, sample_ids, ii) ELSE s1
        l2 == IF patches /\ s_ok /\ l_ok THEN Scatter(l1, jj, label_ids, ii) ELSE l1
        base == [status |-> "ok", sample_ids |-> isids, label_ids |-> ilids,
                 ii |-> ii, jj |-> jj, walk |-> walk, m |-> m,
                 caller_sample_ids |-> isids, caller_label_ids |-> ilids,
                 warning |-> None, error |-> None]
    IN IF raise THEN [base EXCEPT !.status = "ValueError", !.error = message,
                                  !.ii = walk.ii, !.jj = walk.jj]
       ELSE IF ii = <<>>
            THEN [base EXCEPT !.warning = IF warn_existing THEN message ELSE None]
       ELSE IF ~s_ok
            THEN [base EXCEPT !.status = "IndexError",
                              !.warning = IF warn_existing THEN message ELSE None]
       ELSE IF ~l_ok
            THEN [base EXCEPT !.status = "IndexError",
                              !.warning = IF warn_existing THEN message ELSE None,
                              !.caller_sample_ids = IF fresh THEN isids ELSE s2]
       ELSE [base EXCEPT !.sample_ids = s2, !.label_ids = l2,
                         !.warning = IF warn_existing THEN message ELSE None,
                         !.caller_sample_ids = IF fresh THEN isids ELSE s2,
                         !.caller_label_ids = IF fresh THEN ilids ELSE l2]

\* ---------------------------------------------------------------- remove_ids
\* the loop of _find_ids
RECURSIVE FindWalk(_, _, _, _, _)
FindWalk(ids, index_ids, allow_missing, k, acc) ==
    IF k > Len(ids) THEN acc
    ELSE LET ind == MapGet(index_ids, ids[k])
         IN IF ind # NoIdx
            THEN FindWalk(ids, index_ids, allow_missing, k + 1,
                          [acc EXCEPT !.found_inds = Append(@, ind)])
            ELSE IF ~allow_missing
            THEN FindWalk(ids, index_ids, allow_missing, k + 1,
                          [acc EXCEPT !.missing_ids = Append(@, ids[k])])
            ELSE FindWalk(ids, index_ids, allow_missing, k + 1, acc)

\* _find_ids(ids, index_ids, allow_missing, warn_missing, ftype).  Both
\* messages format the string ftype with %d, which is a TypeError.
_find_ids(ids, index_ids, allow_missing, warn_missing, ftype) ==
    LET walk == FindWalk(ids, index_ids, allow_missing, 1,
                         [found_inds |-> <<>>, missing_ids |-> <<>>])
        num_missing == Len(walk.missing_ids)
    IN [status |-> IF num_missing > 0 THEN "TypeError" ELSE "ok",
        found_inds |-> walk.found_inds,
        missing_ids |-> walk.missing_ids,
        warning |-> None]

\* a remove_ids that deletes the positions it has found before it raises
remove_ids_delete_before_raise(sample_ids, label_ids, isids, ilids, patches, allow_missing, warn_missing) ==
    LET fs == IF sample_ids.none
              THEN [status |-> "ok", found_inds |-> <<>>, missing_ids |-> <<>>, warning |-> None]
              ELSE _find_ids(sample_ids.v, isids, allow_missing, warn_missing, "sample")
        fl == IF label_ids.none
              THEN [status |-> "ok", found_inds |-> <<>>, missing_ids |-> <<>>, warning |-> None]
              ELSE _find_ids(label_ids.v, ilids, allow_missing, warn_missing, "label")
        rm_inds == fs.found_inds \o fl.found_inds
    IN [status |-> IF fs.status # "ok" THEN fs.status ELSE fl.status,
        sample_ids |-> NpDelete(isids, rm_inds),
        label_ids |-> IF patches THEN NpDelete(ilids, rm_inds) ELSE ilids,
        rm_inds |-> rm_inds, warning |-> None,
        missing_ids |-> IF fs.status # "ok" THEN fs.missing_ids ELSE fl.missing_ids]

\* np.delete(arr, inds) is an IndexError when a position is out of bounds
\* remove_ids(sample_ids, label_ids, index_sample_ids, index_label_ids, ...)
\* sample_ids and label_ids are optional (None or Some(list))
remove_ids(sample_ids, label_ids, isids, ilids, patches, allow_missing, warn_missing) ==
    LET fs == IF sample_ids.none
              THEN [status |-> "ok", found_inds |-> <<>>, missing_ids |-> <<>>, warning |-> None]
              ELSE _find_ids(sample_ids.v, isids, allow_missing, warn_missing, "sample")
        fl == IF label_ids.none
              THEN [status |-> "ok", found_inds |-> <<>>, missing_ids |-> <<>>, warning |-> None]
              ELSE _find_ids(label_ids.v, ilids, allow_missing, warn_missing, "label")
        rm_inds == fs.found_inds \o fl.found_inds
        s_ok == InBounds(isids, rm_inds)
        l_ok == ~patches \/ InBounds(ilids, rm_inds)
        base == [status |-> "ok", sample_ids |-> isids, label_ids |-> ilids,
                 rm_inds |-> rm_inds, warning |-> None,
                 missing_ids |-> IF fs.status # "ok" THEN fs.missing_ids ELSE fl.missing_ids]
    IN IF fs.status # "ok" THEN [base EXCEPT !.status = fs.status, !.rm_inds = <<>>]
       ELSE IF fl.status # "ok" THEN [base EXCEPT !.status = fl.status, !.rm_inds = <<>>]
       ELSE IF rm_inds = <<>> THEN base
       ELSE IF ~s_ok \/ ~l_ok THEN [base EXCEPT !.status = "IndexError"]
       ELSE [base EXCEPT !.sample_ids = NpDelete(isids, rm_inds),
                         !.label_ids = IF patches THEN NpDelete(ilids, rm_inds) ELSE ilids]

\* ---------------------------------------------------------------- _parse_ids
\* ParseWalk that keeps the query position in place of the index position
RECURSIVE ParseWalkQueryPos(_, _, _, _)
ParseWalkQueryPos(ids, index_ids, _idx, acc) ==
    IF _idx >= Len(ids) THEN acc
    ELSE LET ind == MapGet(index_ids, At(ids, _idx))
         IN IF ind # NoIdx
            THEN ParseWalkQueryPos(ids, index_ids, _idx + 1,
                           [acc EXCEPT !.keep_inds = Append(@, _idx)])
            ELSE ParseWalkQueryPos(ids, index_ids, _idx + 1,
                           [acc EXCEPT !.bad_inds = Append(@, _idx),
                                       !.bad_ids = Append(@, At(ids, _idx))])

\* the loop of _parse_ids over enumerate(ids)
RECURSIVE ParseWalk(_, _, _, _)
ParseWalk(ids, index_ids, _idx, acc) ==
    IF _idx >= Len(ids) THEN acc
    ELSE LET ind == MapGet(index_ids, At(ids, _idx))
         IN IF ind # NoIdx
            THEN ParseWalk(ids, index_ids, _idx + 1,
                           [acc EXCEPT !.keep_inds = Append(@, ind)])
            ELSE ParseWalk(ids, index_ids, _idx + 1,
                           [acc EXCEPT !.bad_inds = Append(@, _idx),
                                       !.bad_ids = Append(@, At(ids, _idx))])

\* GoodMask that is False at the good positions
GoodMaskInverted(ids, bad_inds) == [k \in 1 .. Len(ids) |-> (k - 1) \in Range(bad_inds)]

\* good_inds = np.full(ids.shape, True); good_inds[bad_inds] = False
GoodMask(ids, bad_inds) == [k \in 1 .. Len(ids) |-> (k - 1) \notin Range(bad_inds)]

\* arr[mask] for a boolean mask
RECURSIVE MaskSelect(_, _)
MaskSelect(arr, mask) ==
    IF arr = <<>> THEN <<>>
    ELSE (IF Head(mask) THEN <<Head(arr)>> ELSE <<>>) \o MaskSelect(Tail(arr), Tail(mask))

\* _parse_ids without the fast path for identical sequences
_parse_ids_no_fast_path(ids, index_ids, ftype, allow_missing, warn_missing) ==
    LET walk == ParseWalk(ids, index_ids, 0,
                          [keep_inds |-> <<>>, bad_inds |-> <<>>, bad_ids |-> <<>>])
    IN [status |-> "ok", noop |-> FALSE,
        keep_inds |-> Some(walk.keep_inds), good_inds |-> None, bad_ids |-> None,
        num_missing_index |-> 0, num_missing_collection |-> 0, warnings |-> <<>>]

\* _parse_ids(ids, index_ids, ftype, allow_missing, warn_missing)
\* warnings: the logger.warning calls made, each with the arguments it formats
_parse_ids(ids, index_ids, ftype, allow_missing, warn_missing) ==
    LET walk == ParseWalk(ids, index_ids, 0,
                          [keep_inds |-> <<>>, bad_inds |-> <<>>, bad_ids |-> <<>>])
        num_missing_index == Len(index_ids) - Len(walk.keep_inds)
        num_missing_collection == Len(walk.bad_ids)
        w1 == IF num_missing_index > 0 /\ warn_missing
              THEN <<[what |-> "index", count |-> num_missing_index, ftype |-> ftype]>>
              ELSE <<>>
        w2 == IF num_missing_collection > 0 /\ warn_missing
              THEN <<[what |-> "collection", count |-> num_missing_collection, ftype |-> ftype]>>
              ELSE <<>>
        base == [status |-> "ok", noop |-> FALSE,
                 keep_inds |-> None, good_inds |-> None, bad_ids |-> None,
                 num_missing_index |-> num_missing_index,
                 num_missing_collection |-> num_missing_collection,
                 warnings |-> <<>>]
    IN IF ids = index_ids
       THEN [base EXCEPT !.noop = TRUE, !.num_missing_index = 0,
                         !.num_missing_collection = 0]
       ELSE IF num_missing_index > 0 /\ ~allow_missing
       THEN [base EXCEPT !.status = "ValueError"]
       ELSE IF num_missing_collection > 0 /\ ~allow_missing
       THEN [base EXCEPT !.status = "ValueError", !.warnings = w1]
       ELSE IF num_missing_collection > 0
       THEN [base EXCEPT !.keep_inds = Some(walk.keep_inds),
                         !.good_inds = Some(GoodMask(ids, walk.bad_inds)),
                         !.bad_ids = Some(walk.bad_ids),
                         !.warnings = w1 \o w2]
       ELSE [base EXCEPT !.keep_inds = Some(walk.keep_inds), !.warnings = w1]

\* filter_ids(samples, index_sample_ids, index_label_ids, patches_field, ...)
\* view_sample_ids / view_label_ids: the ids the view resolves to
filter_ids(view_sample_ids, view_label_ids, isids, ilids, patches, allow_missing, warn_missing) ==
    LET r == IF patches
             THEN _parse_ids(view_label_ids, ilids, "labels", allow_missing, warn_missing)
             ELSE _parse_ids(view_sample_ids, isids, "samples", allow_missing, warn_missing)
        filtered == r.status = "ok" /\ ~r.bad_ids.none
    IN [status |-> r.status,
        parsed |-> r,
        sample_ids |-> IF filtered THEN MaskSelect(view_sample_ids, r.good_inds.v)
                       ELSE view_sample_ids,
        label_ids |-> IF patches /\ filtered THEN MaskSelect(view_label_ids, r.good_inds.v)
                      ELSE view_label_ids,
        keep_inds |-> r.keep_inds,
        good_inds |-> r.good_inds]

\* ---------------------------------------------------------------- Pinecone
\* a step count that rounds down
NumStepsFloor(num_vectors, page) == num_vectors \div page

\* int(np.ceil(num_vectors / self._upsert_pagination))
NumSteps(num_vectors, page) == (num_vectors + page - 1) \div page

Min(a, b) == IF a < b THEN a ELSE b

\* index_vectors[min_ind:max_ind]
Slice(a, lo, hi) == [k \in 1 .. (IF hi > lo THEN hi - lo ELSE 0) |-> a[lo + k]]

\* the pages the loop of add_to_index hands to index.upsert, in order
Pages(index_vectors, page) ==
    [i \in 1 .. NumSteps(Len(index_vectors), page) |->
        Slice(index_vectors, page * (i - 1), Min(page * i, Len(index_vectors)))]

\* an upsert loop that goes on to the next page when index.upsert raises
RECURSIVE UpsertLoopContinues(_, _, _, _)
UpsertLoopContinues(index_vectors, page, fail, i) ==
    IF i >= NumSteps(Len(index_vectors), page)
    THEN [status |-> "ok", attempts |-> <<>>, writes |-> <<>>]
    ELSE LET min_ind == page * i
             max_ind == Min(page * (i + 1), Len(index_vectors))
             rest == UpsertLoopContinues(index_vectors, page, fail, i + 1)
         IN [status |-> IF fail = i + 1 THEN "BackendError" ELSE rest.status,
             attempts |-> <<i + 1>> \o rest.attempts,
             writes |-> IF fail = i + 1 THEN rest.writes
                        ELSE <<Slice(index_vectors, min_ind, max_ind)>> \o rest.writes]

\* for i in range(num_steps): index.upsert(index_vectors[min_ind:max_ind]),
\* from step i on; index.upsert raises on the page numbered fail (fail = 0:
\* on none).  attempts: the pages handed to index.upsert, by number, in
\* order; writes: the pages the backend has stored, in order
RECURSIVE UpsertLoop(_, _, _, _)
UpsertLoop(index_vectors, page, fail, i) ==
    IF i >= NumSteps(Len(index_vectors), page)
    THEN [status |-> "ok", attempts |-> <<>>, writes |-> <<>>]
    ELSE LET min_ind == page * i
             max_ind == Min(page * (i + 1), Len(index_vectors))
         IN IF fail = i + 1
            THEN [status |-> "BackendError", attempts |-> <<i + 1>>, writes |-> <<>>]
            ELSE LET rest == UpsertLoop(index_vectors, page, fail, i + 1)
                 IN [status |-> rest.status,
                     attempts |-> <<i + 1>> \o rest.attempts,
                     writes |-> <<Slice(index_vectors, min_ind, max_ind)>>
                                    \o rest.writes]

\* ------------------------------------------------- _sort_by_similarity
\* PineconeSimilarityConfig.supports_least_similarity
supports_least_similarity == FALSE

\* PineconeSimilarityConfig.supports_aggregate_queries
supports_aggregate_queries == FALSE

\* PineconeSimilarityConfig.max_k
max_k == 10000

\* k=None
NoK == -1

\* a limit one above the literal of the k check
KLimitOneMore == max_k + 1

\* the literal of the k check and of min(k, 10000)
KLimit == 10000

\* the one element of the list _sort_by_similarity returns: two string
\* literals written without a comma, so one string of 48 characters, which
\* is no id of any sample or label
StubId == -2

\* the argument checks without the check of aggregation
ArgumentErrorNoAggregation(query, k, reverse, aggregation) ==
    IF reverse = TRUE THEN "reverse"
    ELSE IF k = NoK THEN "k"
    ELSE IF k > KLimit THEN "max_k"
    ELSE IF query.kind = "none" THEN "query"
    ELSE "none"

\* the argument checks of _sort_by_similarity in their order: the error
\* raised, "none" when all pass
ArgumentError(query, k, reverse, aggregation) ==
    IF reverse = TRUE THEN "reverse"
    ELSE IF k = NoK THEN "k"
    ELSE IF k > KLimit THEN "max_k"
    ELSE IF query.kind = "none" THEN "query"
    ELSE IF aggregation # "None" THEN "aggregation"
    ELSE "none"

\* the top_k of index.query
TopK(k, label_ids) == IF ~label_ids.none THEN k ELSE Min(k, KLimit)

\* what index.query can answer: top_k of the stored ids that pass the
\* filter (all of them when there are fewer), in any ranking
Responses(matches, top_k) ==
    LET n == Min(top_k, Cardinality(matches))
    IN {r \in UniqueSeqs(matches, n) : Len(r) = n}

BackendCall(op, id, top_k, filter) ==
    [op |-> op, id |-> id, top_k |-> top_k, filter |-> filter]

\* ---------------------------------------------------------------- get_ids
\* data=None
NoData == -1

\* the None that stands for the label of a sample without labels
NoLabel == 0

\* samples.values(field)
Values(samples, field) == [k \in 1 .. Len(samples) |-> samples[k][field]]

\* the labels of a sample: None and the empty list are both <<>>
_apply_ref_sample_ids(sample_ids, label_ids, ref_sample_ids) ==
    [sample_ids |-> ref_sample_ids,
     label_ids |->
        [idx \in 1 .. Len(ref_sample_ids) |->
            LET hits == {k \in 1 .. Len(sample_ids) :
                            MapGet(ref_sample_ids, sample_ids[k]) = idx - 1}
            IN IF hits = {} THEN <<>>
               ELSE label_ids[CHOOSE k \in hits : \A k2 \in hits : k2 <= k]]]

\* the loop of _flatten_list_ids from the k-th sample on
RECURSIVE FlattenWalk(_, _, _, _)
FlattenWalk(sample_ids, label_ids, _add_missing, k) ==
    IF k > Len(sample_ids)
    THEN [sample_ids |-> <<>>, label_ids |-> <<>>]
    ELSE LET _id == sample_ids[k]
             _lids == label_ids[k]
             rest == FlattenWalk(sample_ids, label_ids, _add_missing, k + 1)
         IN IF Len(_lids) > 0
            THEN [sample_ids |-> [i \in 1 .. Len(_lids) |-> _id] \o rest.sample_ids,
                  label_ids |-> _lids \o rest.label_ids]
            ELSE IF _add_missing
                 THEN [sample_ids |-> <<_id>> \o rest.sample_ids,
                       label_ids |-> <<NoLabel>> \o rest.label_ids]
                 ELSE rest

\* a flattening that drops the samples without labels under every policy
_flatten_list_ids_skip_always(sample_ids, label_ids, handle_missing) ==
    FlattenWalk(sample_ids, label_ids, FALSE, 1)

_flatten_list_ids(sample_ids, label_ids, handle_missing) ==
    FlattenWalk(sample_ids, label_ids, handle_missing = "image", 1)

\* for a field that is not a list field, values() gives one label id or
\* None per sample
_get_patch_ids(samples, is_list_field, handle_missing, ref_sample_ids) ==
    LET r == IF ~ref_sample_ids.none
             THEN _apply_ref_sample_ids(Values(samples, "id"),
                                        Values(samples, "lids"), ref_sample_ids.v)
             ELSE [sample_ids |-> Values(samples, "id"),
                   label_ids |-> Values(samples, "lids")]
    IN IF is_list_field
       THEN _flatten_list_ids(r.sample_ids, r.label_ids, handle_missing)
       ELSE [sample_ids |-> r.sample_ids,
             label_ids |-> [k \in 1 .. Len(r.label_ids) |->
                               IF r.label_ids[k] = <<>> THEN NoLabel
                               ELSE r.label_ids[k][1]]]

\* a length test that only fires when there are fewer ids than data
LengthMismatchFewer(sample_ids, data) ==
    data # NoData /\ Len(sample_ids) < data

\* data is not None and len(sample_ids) != len(data); data is its length
LengthMismatch(sample_ids, data) ==
    data # NoData /\ Len(sample_ids) # data

get_ids(samples, patches, is_list_field, data, handle_missing, ref_sample_ids) ==
    IF ~patches
    THEN LET sample_ids == IF ~ref_sample_ids.none THEN ref_sample_ids.v
                           ELSE Values(samples, "id")
         IN IF LengthMismatch(sample_ids, data)
            THEN [status |-> "ValueError", sample_ids |-> <<>>, label_ids |-> None]
            ELSE [status |-> "ok", sample_ids |-> sample_ids, label_ids |-> None]
    ELSE LET r == _get_patch_ids(samples, is_list_field, handle_missing,
                                 ref_sample_ids)
         IN IF LengthMismatch(r.sample_ids, data)
            THEN [status |-> "ValueError", sample_ids |-> <<>>, label_ids |-> None]
            ELSE [status |-> "ok", sample_ids |-> r.sample_ids,
                  label_ids |-> Some(r.label_ids)]

\* ------------------------------------------------------------ skip_ids
\* samples.exclude(ids)
Exclude(samples, ids) == SelectSeq(samples, LAMBDA s : s.id \notin ids)

\* samples.exclude_labels(ids=ids, fields=patches_field): the samples stay
ExcludeLabels(samples, ids) ==
    [k \in 1 .. Len(samples) |->
        [samples[k] EXCEPT !.lids = SelectSeq(@, LAMBDA l : l \notin ids)]]

\* skip_ids(samples, skip_ids, patches_field, warn_existing); skip is the
\* set of the ids in skip_ids.  exclude_ids = set(ids) - set(skip_ids)
skip_ids(samples, skip, patches, is_list_field, warn_existing) ==
    LET r == get_ids(samples, patches, is_list_field, NoData, "skip", None)
        ids == IF patches THEN r.label_ids.v ELSE r.sample_ids
        exclude_ids == Range(ids) \ skip
        num_existing == Cardinality(exclude_ids)
    IN [status |-> "ok",
        samples |-> IF patches
                    THEN (IF num_existing > 0 THEN ExcludeLabels(samples, exclude_ids)
                          ELSE samples)
                    ELSE Exclude(samples, exclude_ids),
        exclude_ids |-> exclude_ids,
        warning |-> IF num_existing > 0 /\ warn_existing
                    THEN Some([count |-> num_existing,
                               ftype |-> IF patches THEN "label" ELSE "sample"])
                    ELSE None]

\* ------------------------------------------------------- get_embeddings
\* np.concatenate(arrs, axis=0), and np.stack of rows
RECURSIVE NpConcatenate(_)
NpConcatenate(arrs) ==
    IF arrs = <<>> THEN <<>> ELSE Head(arrs) \o NpConcatenate(Tail(arrs))

_empty_embeddings(patches) ==
    [status |-> "ok", embeddings |-> <<>>, sample_ids |-> <<>>,
     label_ids |-> IF patches THEN Some(<<>>) ELSE None]

\* the positions of the entries of embeddings that are None
MissingInds(embeddings) ==
    LET RECURSIVE Go(_)
        Go(idx) == IF idx >= Len(embeddings) THEN <<>>
                   ELSE (IF At(embeddings, idx).none THEN <<idx>> ELSE <<>>)
                        \o Go(idx + 1)
    IN Go(0)

\* a _handle_missing_embeddings that leaves the ids of the samples as
\* they are
_handle_missing_embeddings_keep_ids(embeddings, samples, is_array) ==
    [embeddings |-> SelectSeq(embeddings, LAMBDA e : ~e.none),
     ref_sample_ids |-> None]

\* embeddings: one entry per sample, None or the rows of the sample
_handle_missing_embeddings(embeddings, samples, is_array) ==
    LET missing_inds == MissingInds(embeddings)
    IN IF is_array \/ missing_inds = <<>>
       THEN [embeddings |-> embeddings, ref_sample_ids |-> None]
       ELSE [embeddings |-> SelectSeq(embeddings, LAMBDA e : ~e.none),
             ref_sample_ids |-> Some(NpDelete(Values(samples, "id"), missing_inds))]

\* get_embeddings with model=None, embeddings_field=None and agg_fcn=None.
\* kind: "none" (embeddings=None), "list", "dict" (looked up by sample id,
\* which gives the list) or "array" (one array that holds every row)
get_embeddings(samples, patches, is_list_field, kind, embeddings, handle_missing) ==
    IF kind = "none" THEN _empty_embeddings(patches)
    ELSE LET h == _handle_missing_embeddings(embeddings, samples, kind = "array")
         IN IF kind # "array" /\ h.embeddings = <<>>
            THEN _empty_embeddings(patches)
            ELSE LET rows == NpConcatenate([k \in 1 .. Len(h.embeddings) |->
                                               h.embeddings[k].v])
                     r == get_ids(samples, patches, is_list_field, Len(rows),
                                  handle_missing, h.ref_sample_ids)
                 IN IF r.status # "ok"
                    THEN [status |-> r.status, embeddings |-> <<>>,
                          sample_ids |-> <<>>, label_ids |-> None]
                    ELSE [status |-> "ok", embeddings |-> rows,
                          sample_ids |-> r.sample_ids, label_ids |-> r.label_ids]

\* ------------------------------------------------------------ _from_dict
config_attrs ==
    <<"index_name", "pod_type", "pods", "replicas", "metric",
      "upsert_pagination", "api_key", "environment">>

\* a key the dict d does not hold
NotInDict == -1

\* a None value (JSON null)
Null == 0

\* d.get(key, None)
DictGet(d, key) == IF d[key] = NotInDict THEN Null ELSE d[key]

\* the loop of _from_dict over config_attrs from the i-th attribute on
RECURSIVE FromDictLoop(_, _, _)
FromDictLoop(config, d, i) ==
    IF i > Len(config_attrs) THEN config
    ELSE LET attr == config_attrs[i]
             value == DictGet(d, "index_name")
         IN FromDictLoop(IF d[attr] # NotInDict /\ value # Null
                         THEN [config EXCEPT ![attr] = value]
                         ELSE config,
                         d, i + 1)

\* the configuration of the results object _from_dict builds
_from_dict(d, config) == FromDictLoop(config, d, 1)

\* ---------------------------------------------------------------- calls
NoCall == [op |-> "none", sample_ids |-> None, label_ids |-> None,
           overwrite |-> FALSE, allow_existing |-> FALSE, warn_existing |-> FALSE,
           allow_missing |-> FALSE, warn_missing |-> FALSE,
           allow_missing_arg |-> "default"]

NoRet == [status |-> "none"]

Snapshot == [index_sample_ids |-> index_sample_ids,
             index_label_ids |-> index_label_ids,
             backend |-> backend]

\* the incoming batches: key ids (sample ids, or label ids of a patch index)
Batches == SeqsUpTo(Ids, MaxBatch)

\* the key ids a view resolves to
Views == SeqsUpTo(Ids, MaxView)

SamplesOf(lids) == MapSeq(lids, SampleOf)

\* the (sample_ids, label_ids) arguments of a remove_ids call
RemoveArgs ==
    IF ~patches_field
    THEN {<<Some(b), None>> : b \in Batches}
    ELSE {<<None, Some(b)>> : b \in Batches}
         \cup {<<Some(b), None>> : b \in SeqsUpTo(SampleIds, MaxBatch)}
         \cup {<<Some(a), Some(b)>> : a \in SeqsUpTo(SampleIds, 1), b \in SeqsUpTo(Ids, 1)}

\* the default of PineconeSimilarityConfig.upsert_pagination
DefaultPagination == 100

\* an empty IndexState
Init ==
    /\ patches_field \in BOOLEAN
    /\ upsert_pagination = DefaultPagination
    /\ index_sample_ids = <<>>
    /\ index_label_ids = <<>>
    /\ backend = {}
    /\ pc = "idle"
    /\ call = NoCall
    /\ pre = [index_sample_ids |-> <<>>, index_label_ids |-> <<>>, backend |-> {}]
    /\ ret = NoRet

\* a caller applies add_ids to the IndexState and keeps the returned arrays;
\* when the call raises, the caller keeps the arrays it passed in
Add ==
    /\ pc = "idle"
    /\ \E ids \in Batches, overwrite, allow_existing, warn_existing \in BOOLEAN :
        LET sids == IF patches_field THEN SamplesOf(ids) ELSE ids
            lids == IF patches_field THEN ids ELSE <<>>
            r == add_ids(sids, lids, index_sample_ids, index_label_ids,
                         patches_field, overwrite, allow_existing, warn_existing)
        IN /\ Len(r.sample_ids) <= MaxLen
           /\ call' = [NoCall EXCEPT !.op = "add", !.sample_ids = Some(sids),
                          !.label_ids = IF patches_field THEN Some(lids) ELSE None,
                          !.overwrite = overwrite,
                          !.allow_existing = allow_existing,
                          !.warn_existing = warn_existing]
           /\ pre' = Snapshot
           /\ ret' = r
           /\ index_sample_ids' = IF r.status = "ok" THEN r.sample_ids
                                  ELSE r.caller_sample_ids
           /\ index_label_ids' = IF r.status = "ok" THEN r.label_ids
                                 ELSE r.caller_label_ids
    /\ pc' = "done"
    /\ UNCHANGED <<patches_field, backend, upsert_pagination>>

\* a caller applies remove_ids to the IndexState and keeps the returned arrays
Remove ==
    /\ pc = "idle"
    /\ \E args \in RemoveArgs, allow_missing, warn_missing \in BOOLEAN :
        LET r == remove_ids(args[1], args[2], index_sample_ids, index_label_ids,
                            patches_field, allow_missing, warn_missing)
        IN /\ call' = [NoCall EXCEPT !.op = "remove", !.sample_ids = args[1],
                          !.label_ids = args[2],
                          !.allow_missing = allow_missing,
                          !.warn_missing = warn_missing]
           /\ pre' = Snapshot
           /\ ret' = r
           /\ index_sample_ids' = r.sample_ids
           /\ index_label_ids' = r.label_ids
    /\ pc' = "done"
    /\ UNCHANGED <<patches_field, backend, upsert_pagination>>

\* allow_missing=False in place of the default of filter_ids
FilterAllowMissingDefaultFalse == FALSE

\* the default of the allow_missing parameter of filter_ids
FilterAllowMissingDefault == TRUE

\* filter_ids of a view against the IndexState; the view resolves to any
\* list of ids; allow_missing is passed as True, as False, or left out
Filter ==
    /\ pc = "idle"
    /\ \E ids \in Views, warn_missing \in BOOLEAN,
          allow_missing_arg \in {"default", "True", "False"} :
        LET sids == IF patches_field THEN SamplesOf(ids) ELSE ids
            lids == IF patches_field THEN ids ELSE <<>>
            allow_missing == IF allow_missing_arg = "default"
                             THEN FilterAllowMissingDefault
                             ELSE allow_missing_arg = "True"
        IN /\ call' = [NoCall EXCEPT !.op = "filter", !.sample_ids = Some(sids),
                          !.label_ids = IF patches_field THEN Some(lids) ELSE None,
                          !.allow_missing = allow_missing,
                          !.allow_missing_arg = allow_missing_arg,
                          !.warn_missing = warn_missing]
           /\ pre' = Snapshot
           /\ ret' = filter_ids(sids, lids, index_sample_ids, index_label_ids,
                                patches_field, allow_missing, warn_missing)
    /\ pc' = "done"
    /\ UNCHANGED <<patches_field, index_sample_ids, index_label_ids, backend,
                   upsert_pagination>>

\* the ids of the vectors of the pages 1 .. n
PageIds(pages, n) == UNION {Range(pages[i]) : i \in 1 .. n}

\* the embeddings handed to add_to_index, one row per id, named by their
\* ids; a call carries one vector per id
Vectors == UniqueSeqs(Ids, MaxVectors)

\* PineconeSimilarityResults.add_to_index: the vectors are keyed by label id
\* when label_ids is given, else by sample id; embeddings has one row per
\* id; overwrite, allow_existing and warn_existing are not read.
\* fail = j > 0: index.upsert raises on page j.
add_to_index ==
    /\ pc = "idle"
    /\ \E ids \in Vectors :
        LET sids == IF patches_field THEN SamplesOf(ids) ELSE ids
            lids == IF patches_field THEN ids ELSE <<>>
            index_vectors == IF patches_field THEN lids ELSE sids
            num_vectors == Len(ids)
        IN \E fail \in 0 .. NumSteps(num_vectors, upsert_pagination) :
            LET r == UpsertLoop(index_vectors, upsert_pagination, fail, 0)
            IN /\ call' = [NoCall EXCEPT !.op = "add_to_index", !.sample_ids = Some(sids),
                              !.label_ids = IF patches_field THEN Some(lids) ELSE None]
               /\ pre' = Snapshot
               /\ ret' = [status |-> r.status,
                          fail |-> fail,
                          attempts |-> r.attempts,
                          writes |-> r.writes]
               /\ backend' = backend \cup PageIds(r.writes, Len(r.writes))
    /\ pc' = "done"
    /\ UNCHANGED <<patches_field, index_sample_ids, index_label_ids, upsert_pagination>>

\* [x for x in arr if x not in ids]
ListFilter(arr, ids) == SelectSeq(arr, LAMBDA x : x \notin Range(ids))

\* PineconeSimilarityResults.remove_from_index: allow_missing and
\* warn_missing are not read
remove_from_index ==
    /\ pc = "idle"
    /\ \E ids \in Batches :
        /\ call' = [NoCall EXCEPT !.op = "remove_from_index",
                       !.sample_ids = IF patches_field THEN None ELSE Some(ids),
                       !.label_ids = IF patches_field THEN Some(ids) ELSE None]
        /\ pre' = Snapshot
        /\ ret' = [status |-> "ok"]
        /\ IF patches_field
           THEN /\ index_label_ids' = ListFilter(index_label_ids, ids)
                /\ UNCHANGED index_sample_ids
           ELSE /\ index_sample_ids' = ListFilter(index_sample_ids, ids)
                /\ UNCHANGED index_label_ids
        /\ backend' = backend \ Range(ids)
    /\ pc' = "done"
    /\ UNCHANGED <<patches_field, upsert_pagination>>

\* the lists of label ids one sample can hold
LabelLists == UniqueSeqs(Ids, MaxLabels)

\* the collections get_ids is called on: the k-th sample has id 100 + k and
\* holds the label ids of its patches field; a label belongs to one sample
Collections ==
    UNION {{[k \in 1 .. n |-> [id |-> 100 + k, lids |-> f[k]]] :
              f \in {g \in [1 .. n -> LabelLists] :
                        \A i, j \in 1 .. n :
                            i # j => Range(g[i]) \cap Range(g[j]) = {}}} :
           n \in 0 .. MaxSamples}

\* ref_sample_ids: None, or sample ids of the collection in some order
RefSampleIds(samples) ==
    {None} \cup {Some(r) : r \in UniqueSeqs(Range(Values(samples, "id")), MaxSamples)}

\* get_ids on a collection; data is given by its length
GetIds ==
    /\ pc = "idle"
    /\ \E samples \in Collections, is_list_field \in BOOLEAN,
          data \in {NoData} \cup 0 .. MaxData,
          handle_missing \in {"skip", "image"} :
        /\ is_list_field \/ \A k \in 1 .. Len(samples) : Len(samples[k].lids) <= 1
        /\ \E ref_sample_ids \in RefSampleIds(samples) :
            /\ call' = [op |-> "get_ids", samples |-> samples,
                        is_list_field |-> is_list_field, data |-> data,
                        handle_missing |-> handle_missing,
                        ref_sample_ids |-> ref_sample_ids]
            /\ pre' = Snapshot
            /\ ret' = get_ids(samples, patches_field, is_list_field, data,
                              handle_missing, ref_sample_ids)
    /\ pc' = "done"
    /\ UNCHANGED <<patches_field, index_sample_ids, index_label_ids, backend,
                   upsert_pagination>>

\* the query argument: None, a vector, or the id of a stored vector
Queries ==
    {[kind |-> "none", id |-> NoIdx], [kind |-> "vector", id |-> NoIdx]}
        \cup {[kind |-> "id", id |-> i] : i \in Ids}

\* the k argument: None, small counts, the maximum and one above
Ks == {NoK} \cup 1 .. MaxTopK \cup {max_k, max_k + 1}

Aggregations == {"None", "mean"}

\* the ids of the current view: ids of the index, in its order
ViewsOf(ids) ==
    {MaskSelect(ids, [n \in 1 .. Len(ids) |-> n \in S]) : S \in SUBSET (1 .. Len(ids))}

\* PineconeSimilarityResults._sort_by_similarity; current_sample_ids and
\* current_label_ids are the ids of the view in use
_sort_by_similarity ==
    /\ pc = "idle"
    /\ \E query \in Queries, k \in Ks, reverse, return_dists \in BOOLEAN,
          aggregation \in Aggregations,
          view \in ViewsOf(IF patches_field THEN index_label_ids
                           ELSE index_sample_ids) :
        LET sample_ids == IF patches_field THEN SamplesOf(view) ELSE view
            label_ids == IF patches_field THEN Some(view) ELSE None
            err == ArgumentError(query, k, reverse, aggregation)
            fetch == IF query.kind = "id"
                     THEN <<BackendCall("fetch", query.id, 0, <<>>)>> ELSE <<>>
            filter == IF ~label_ids.none THEN label_ids.v ELSE sample_ids
            top_k == TopK(k, label_ids)
            failed(status, error, calls) ==
                [status |-> status, error |-> error, backend_calls |-> calls,
                 response |-> <<>>, ids |-> <<>>, dists |-> None]
        IN /\ call' = [op |-> "_sort_by_similarity", query |-> query, k |-> k,
                       reverse |-> reverse, aggregation |-> aggregation,
                       return_dists |-> return_dists,
                       current_sample_ids |-> sample_ids,
                       current_label_ids |-> label_ids]
           /\ pre' = Snapshot
           /\ IF err # "none"
              THEN ret' = failed("ValueError", err, <<>>)
              ELSE IF query.kind = "id" /\ query.id \notin backend
              THEN ret' = failed("KeyError", "fetch", fetch)
              ELSE \E response \in Responses(backend \cap Range(filter), top_k) :
                      ret' = [status |-> "ok", error |-> "none",
                              backend_calls |->
                                  fetch \o <<BackendCall("query", NoIdx, top_k, filter)>>,
                              response |-> response,
                              ids |-> <<StubId>>,
                              dists |-> IF return_dists THEN Some(<<>>) ELSE None]
    /\ pc' = "done"
    /\ UNCHANGED <<patches_field, index_sample_ids, index_label_ids, backend,
                   upsert_pagination>>

\* the values of a persisted attribute
AttrValues == 1 .. MaxValue

\* the dicts handed to _from_dict: an attribute is missing, null or set
Dicts == [Range(config_attrs) -> {NotInDict, Null} \cup AttrValues]

\* the configs handed to _from_dict: every attribute is set
Configs == {[attr \in Range(config_attrs) |-> v] : v \in AttrValues}

\* PineconeSimilarityResults._from_dict(d, samples, config): returns a new
\* results object, which holds the configuration
FromDict ==
    /\ pc = "idle"
    /\ \E d \in Dicts, config \in Configs :
        /\ call' = [op |-> "_from_dict", d |-> d, config |-> config]
        /\ pre' = Snapshot
        /\ ret' = [status |-> "ok", config |-> _from_dict(d, config)]
    /\ pc' = "done"
    /\ UNCHANGED <<patches_field, index_sample_ids, index_label_ids, backend,
                   upsert_pagination>>

\* the embeddings supplied for the samples at the places in present: a
\* row is named by the id of its sample, or by the id of its label when the
\* sample comes with one row per label
EmbeddingsFor(samples, present, patches) ==
    [k \in 1 .. Len(samples) |->
        IF k \in present
        THEN Some(IF patches THEN samples[k].lids ELSE <<samples[k].id>>)
        ELSE None]

\* get_embeddings on a collection with supplied embeddings
GetEmbeddings ==
    /\ pc = "idle"
    /\ \E samples \in Collections, is_list_field \in BOOLEAN,
          handle_missing \in {"skip", "image"},
          kind \in {"none", "list", "dict", "array"} :
        /\ is_list_field \/ \A k \in 1 .. Len(samples) : Len(samples[k].lids) <= 1
        /\ patches_field \/ is_list_field  \* the field type is read in patch mode only
        /\ \E present \in SUBSET (1 .. Len(samples)) :
            /\ kind \in {"none", "array"} => present = 1 .. Len(samples)
            /\ call' = [op |-> "get_embeddings", samples |-> samples,
                        is_list_field |-> is_list_field, kind |-> kind,
                        present |-> present, handle_missing |-> handle_missing]
            /\ pre' = Snapshot
            /\ ret' = get_embeddings(samples, patches_field, is_list_field, kind,
                                     EmbeddingsFor(samples, present, patches_field),
                                     handle_missing)
    /\ pc' = "done"
    /\ UNCHANGED <<patches_field, index_sample_ids, index_label_ids, backend,
                   upsert_pagination>>

\* skip_ids on a collection; the skip set holds label ids in patch mode
\* and sample ids otherwise
SkipIds ==
    /\ pc = "idle"
    /\ \E samples \in Collections, is_list_field, warn_existing \in BOOLEAN,
          skip \in SUBSET (IF patches_field THEN Ids
                           ELSE {100 + k : k \in 1 .. MaxSamples}) :
        /\ is_list_field \/ \A k \in 1 .. Len(samples) : Len(samples[k].lids) <= 1
        /\ patches_field \/ is_list_field  \* the field type is read in patch mode only
        /\ call' = [op |-> "skip_ids", samples |-> samples,
                    is_list_field |-> is_list_field, skip |-> skip,
                    warn_existing |-> warn_existing]
        /\ pre' = Snapshot
        /\ ret' = skip_ids(samples, skip, patches_field, is_list_field, warn_existing)
    /\ pc' = "done"
    /\ UNCHANGED <<patches_field, index_sample_ids, index_label_ids, backend,
                   upsert_pagination>>

\* the call has returned to its caller; the next call may start
Return ==
    /\ pc = "done"
    /\ pc' = "idle"
    /\ call' = NoCall
    /\ pre' = [index_sample_ids |-> <<>>, index_label_ids |-> <<>>, backend |-> {}]
    /\ ret' = NoRet
    /\ UNCHANGED <<patches_field, index_sample_ids, index_label_ids, backend,
                   upsert_pagination>>

\* PineconeSimilarityResults.__init__ on restored results: the IndexState is
\* the persisted one and the Pinecone index holds the vectors of its ids
InitFacade ==
    /\ patches_field \in BOOLEAN
    /\ upsert_pagination \in 1 .. MaxPage
    /\ \E ids \in UniqueSeqs(Ids, MaxLen) :
        /\ index_sample_ids = (IF patches_field THEN SamplesOf(ids) ELSE ids)
        /\ index_label_ids = (IF patches_field THEN ids ELSE <<>>)
        /\ backend = Range(ids)
    /\ pc = "idle"
    /\ call = NoCall
    /\ pre = [index_sample_ids |-> <<>>, index_label_ids |-> <<>>, backend |-> {}]
    /\ ret = NoRet

\* the synchronizer functions on an IndexState that starts empty
Next ==
    \/ Add
    \/ Remove
    \/ Filter
    \/ Return

Spec == Init /\ [][Next]_vars

\* the Pinecone results object
NextFacade ==
    \/ add_to_index
    \/ remove_from_index
    \/ Return

SpecFacade == InitFacade /\ [][NextFacade]_vars

\* the functions that resolve a collection or a dict
NextFunctions ==
    \/ GetIds
    \/ GetEmbeddings
    \/ SkipIds
    \/ FromDict
    \/ Return

SpecFunctions == Init /\ [][NextFunctions]_vars

\* restored results with the default configuration, ready for queries
InitQuery ==
    /\ patches_field \in BOOLEAN
    /\ upsert_pagination = DefaultPagination
    /\ \E ids \in UniqueSeqs(Ids, MaxLen) :
        /\ index_sample_ids = (IF patches_field THEN SamplesOf(ids) ELSE ids)
        /\ index_label_ids = (IF patches_field THEN ids ELSE <<>>)
        /\ backend = Range(ids)
    /\ pc = "idle"
    /\ call = NoCall
    /\ pre = [index_sample_ids |-> <<>>, index_label_ids |-> <<>>, backend |-> {}]
    /\ ret = NoRet

\* similarity queries against the Pinecone results object
NextQuery ==
    \/ _sort_by_similarity
    \/ Return

SpecQuery == InitQuery /\ [][NextQuery]_vars

\* ---------------------------------------------------------------- claims
CallKeyIds == IF patches_field THEN call.label_ids.v ELSE call.sample_ids.v

PreKey == IF patches_field THEN pre.index_label_ids ELSE pre.index_sample_ids

CurKey == IF patches_field THEN index_label_ids ELSE index_sample_ids

AddDone == pc = "done" /\ call.op = "add"

\* the position of id in an array that holds it once
PosOf(arr, id) == (CHOOSE k \in 1 .. Len(arr) : arr[k] = id) - 1

\* the number of entries of ids before place k that are not in the index
NewBefore(ids, index_ids, k) ==
    Cardinality({i \in 1 .. k - 1 : ids[i] \notin Range(index_ids)})

\* the incoming ids that are not in the index, in incoming order
NewIds(ids, index_ids) == SelectSeq(ids, LAMBDA x : x \notin Range(index_ids))

\* C1: on an index with unique ids, add with overwrite=True assigns every
\* incoming id that is in the index its existing position and every
\* incoming id that is not the next unused position, counted from the old
\* index length in incoming order; a call that completes returns the old
\* array followed by the new ids.
C1_AddPositions ==
    (AddDone /\ call.overwrite /\ IsUnique(PreKey)) =>
        /\ ret.walk.ii = [k \in 1 .. Len(CallKeyIds) |-> k - 1]
        /\ ret.walk.jj = [k \in 1 .. Len(CallKeyIds) |->
                IF CallKeyIds[k] \in Range(PreKey)
                THEN PosOf(PreKey, CallKeyIds[k])
                ELSE Len(PreKey) + NewBefore(CallKeyIds, PreKey, k)]
        /\ (ret.status = "ok" /\ call.allow_existing) =>
                CurKey = PreKey \o NewIds(CallKeyIds, PreKey)

\* index [1,2], add([2,3]) gives [1,2,3] and write positions [1,2]
C1_Witness ==
    /\ AddDone /\ call.overwrite /\ call.allow_existing /\ ~patches_field
    /\ pre.index_sample_ids = <<1, 2>>
    /\ call.sample_ids.v = <<2, 3>>
    /\ ret.jj = <<1, 2>>
    /\ index_sample_ids = <<1, 2, 3>>

\* C2: add with overwrite=True completes for every incoming batch, grows
\* the arrays by the number of new positions it assigned, and writes only
\* within the bounds of the resized arrays.
C2_AddCompletes ==
    (AddDone /\ call.overwrite /\ call.allow_existing) =>
        /\ ret.status = "ok"
        /\ Len(index_sample_ids) =
              Len(pre.index_sample_ids)
              + Cardinality({k \in 1 .. Len(ret.jj) : ret.jj[k] >= Len(pre.index_sample_ids)})
        /\ InBounds(index_sample_ids, ret.jj)

\* C3: add with overwrite=True is idempotent: the same call applied to the
\* arrays an add has left ends as the first one did and leaves those arrays
\* unchanged.
C3_AddIdempotent ==
    (AddDone /\ call.overwrite /\ call.allow_existing) =>
        LET again == add_ids(call.sample_ids.v, call.label_ids.v,
                             index_sample_ids, index_label_ids, patches_field,
                             TRUE, TRUE, call.warn_existing)
        IN /\ again.status = ret.status
           /\ index_sample_ids = (IF again.status = "ok" THEN again.sample_ids
                                  ELSE again.caller_sample_ids)
           /\ index_label_ids = (IF again.status = "ok" THEN again.label_ids
                                 ELSE again.caller_label_ids)

\* a completed add that grew the index and also overwrote an existing id
C3_Witness ==
    /\ AddDone /\ call.overwrite /\ call.allow_existing /\ ret.status = "ok"
    /\ Len(index_sample_ids) > Len(pre.index_sample_ids)
    /\ \E k \in 1 .. Len(ret.jj) : ret.jj[k] < Len(pre.index_sample_ids)

RemoveDone == pc = "done" /\ call.op = "remove"

\* the call names ids of the key array only
KeyArgs == IF patches_field THEN call.sample_ids.none /\ ~call.label_ids.none
           ELSE ~call.sample_ids.none /\ call.label_ids.none

\* the entries of arr at the places where the entry of key is not in ids
RECURSIVE Survivors(_, _, _)
Survivors(arr, key, ids) ==
    IF arr = <<>> THEN <<>>
    ELSE (IF Head(key) \in ids THEN <<>> ELSE <<Head(arr)>>)
         \o Survivors(Tail(arr), Tail(key), ids)

\* C4: remove of key ids from an index with unique ids deletes exactly the
\* positions that hold a target id and leaves the other entries (of both
\* arrays of a patch index) in their original relative order.
C4_RemoveCompacts ==
    (RemoveDone /\ KeyArgs /\ ret.status = "ok" /\ IsUnique(PreKey)) =>
        /\ CurKey = SelectSeq(PreKey, LAMBDA x : x \notin Range(CallKeyIds))
        /\ index_sample_ids =
              Survivors(pre.index_sample_ids, PreKey, Range(CallKeyIds))
        /\ Range(ret.rm_inds) =
              {k - 1 : k \in {i \in 1 .. Len(PreKey) : PreKey[i] \in Range(CallKeyIds)}}

\* remove([2]) from [1,2,3] gives [1,3]
C4_Witness ==
    /\ RemoveDone /\ ~patches_field /\ ret.status = "ok"
    /\ pre.index_sample_ids = <<1, 2, 3>>
    /\ call.sample_ids.v = <<2>>
    /\ index_sample_ids = <<1, 3>>

\* C5: remove of ids that are all present in the index, followed by add of
\* the same ids, gives arrays as long as they were before the remove.
C5_RemoveAddLength ==
    (/\ RemoveDone /\ KeyArgs /\ ret.status = "ok" /\ IsUnique(PreKey)
     /\ Range(CallKeyIds) \subseteq Range(PreKey)) =>
        LET lids == IF patches_field THEN CallKeyIds ELSE <<>>
            sids == IF patches_field THEN SamplesOf(CallKeyIds) ELSE CallKeyIds
            added == add_ids(sids, lids, index_sample_ids, index_label_ids,
                             patches_field, TRUE, TRUE, FALSE)
        IN /\ added.status = "ok"
           /\ Len(added.sample_ids) = Len(pre.index_sample_ids)
           /\ patches_field => Len(added.label_ids) = Len(pre.index_label_ids)

\* C6: the ids of the key array of the index are pairwise distinct.
C6_KeyIdsDistinct == IsUnique(CurKey)

\* C7: the two arrays of a patch index have the same length.
C7_EqualLength == patches_field => Len(index_sample_ids) = Len(index_label_ids)

\* C8: after a completed add_to_index or remove_from_index, the ids of the
\* IndexState are the ids stored in the Pinecone index.
C8_FacadeMatchesBackend ==
    (pc = "done" /\ call.op \in {"add_to_index", "remove_from_index"}
     /\ ret.status = "ok") =>
        Range(CurKey) = backend

FilterDone == pc = "done" /\ call.op = "filter"

\* C9: _parse_ids of two elementwise equal sequences returns
\* (None, None, None), whatever allow_missing and warn_missing are.
C9_EqualIsNoop ==
    (FilterDone /\ CallKeyIds = PreKey) =>
        /\ ret.status = "ok"
        /\ ret.parsed.keep_inds.none
        /\ ret.parsed.good_inds.none
        /\ ret.parsed.bad_ids.none

\* equal, non-empty sequences compared with allow_missing=False
C9_Witness ==
    /\ FilterDone /\ CallKeyIds = PreKey /\ Len(PreKey) >= 2
    /\ ~call.allow_missing /\ call.warn_missing
    /\ ret.keep_inds.none

\* the query ids that are in the index, in query order
Present(ids, index_ids) == SelectSeq(ids, LAMBDA x : x \in Range(index_ids))

\* C10: off the no-op path and with missing ids allowed, keep_inds has one
\* entry per query id present in the index, in query order, each the index
\* position of that id; good_inds is None when no query id is absent, else
\* the mask over the query that is false exactly at the absent ids.
C10_KeepAndGood ==
    (FilterDone /\ CallKeyIds # PreKey /\ call.allow_missing) =>
        LET present == Present(CallKeyIds, PreKey)
            keep == ret.parsed.keep_inds
            good == ret.parsed.good_inds
        IN /\ ret.status = "ok"
           /\ ~keep.none
           /\ Len(keep.v) = Len(present)
           /\ \A j \in 1 .. Len(present) :
                 /\ keep.v[j] \in 0 .. Len(PreKey) - 1
                 /\ At(PreKey, keep.v[j]) = present[j]
           /\ IF Range(CallKeyIds) \subseteq Range(PreKey)
              THEN good.none
              ELSE /\ ~good.none
                   /\ good.v = [k \in 1 .. Len(CallKeyIds) |->
                                    CallKeyIds[k] \in Range(PreKey)]

\* a query with present ids out of index order and an absent id between them
C10_Witness ==
    /\ FilterDone /\ call.allow_missing /\ ~patches_field
    /\ pre.index_sample_ids = <<1, 2>>
    /\ call.sample_ids.v = <<2, 3, 1>>
    /\ ret.keep_inds = Some(<<1, 0>>)
    /\ ret.good_inds = Some(<<TRUE, FALSE, TRUE>>)

\* the ids filter_ids returned
ReturnedKey == IF patches_field THEN ret.label_ids ELSE ret.sample_ids

\* C11 as stated: filter_ids with missing ids allowed returns the view's
\* ids that are in the index, in view order (both arrays of a patch view
\* alike), and as many ids as keep_inds has entries.
C11_FilterReturnsPresent ==
    (FilterDone /\ call.allow_missing) =>
        /\ ret.status = "ok"
        /\ ReturnedKey = Present(CallKeyIds, PreKey)
        /\ patches_field => ret.sample_ids = SamplesOf(ReturnedKey)
        /\ ~ret.keep_inds.none
        /\ Len(ReturnedKey) = Len(ret.keep_inds.v)

\* C11 as amended: the same, with the count stated for the calls that
\* return a keep_inds; a view identical to the index gets keep_inds = None
\* and all of its ids back.
C11_FilterReturnsPresentOrNoop ==
    (FilterDone /\ call.allow_missing) =>
        /\ ret.status = "ok"
        /\ ReturnedKey = Present(CallKeyIds, PreKey)
        /\ patches_field => ret.sample_ids = SamplesOf(ReturnedKey)
        /\ IF ret.keep_inds.none
           THEN CallKeyIds = PreKey /\ ReturnedKey = CallKeyIds
           ELSE Len(ReturnedKey) = Len(ret.keep_inds.v)

\* view [1,2] against index [2,3] returns [2]
C11_Witness ==
    /\ FilterDone /\ call.allow_missing /\ call.warn_missing /\ ~patches_field
    /\ call.sample_ids.v = <<1, 2>>
    /\ pre.index_sample_ids = <<2, 3>>
    /\ ret.sample_ids = <<2>>
    /\ ret.keep_inds = Some(<<0>>)

\* the view and the index do not hold the same set of ids
SetsDiffer == Range(CallKeyIds) # Range(PreKey)

C12_WitnessFatal ==
    /\ FilterDone /\ call.allow_missing_arg = "False" /\ SetsDiffer
    /\ ret.status = "ValueError"

GetIdsDone == pc = "done" /\ call.op = "get_ids"

\* the label lists get_ids resolves, written from the collection: one per
\* sample, or one per reference id (empty when the reference id has no sample)
ResolvedLists ==
    IF call.ref_sample_ids.none
    THEN [k \in 1 .. Len(call.samples) |-> call.samples[k].lids]
    ELSE [k \in 1 .. Len(call.ref_sample_ids.v) |->
            LET hits == {i \in 1 .. Len(call.samples) :
                            call.samples[i].id = call.ref_sample_ids.v[k]}
            IN IF hits = {} THEN <<>> ELSE call.samples[CHOOSE i \in hits : TRUE].lids]

RECURSIVE SumLens(_, _)
SumLens(lists, image) ==
    IF lists = <<>> THEN 0
    ELSE (IF Len(Head(lists)) > 0 THEN Len(Head(lists))
          ELSE IF image THEN 1 ELSE 0) + SumLens(Tail(lists), image)

\* the number of ids get_ids resolves
ResolvedCount ==
    IF patches_field /\ call.is_list_field
    THEN SumLens(ResolvedLists, call.handle_missing = "image")
    ELSE Len(ResolvedLists)

\* C13: get_ids raises the integrity error exactly when data is given and
\* the number of ids it resolves differs from the length of the data, for
\* samples and for patches alike; it never raises when no data is given,
\* and otherwise returns as many ids as it resolved
C13_GetIdsIntegrity ==
    GetIdsDone =>
        /\ (ret.status = "ValueError")
             <=> (call.data # NoData /\ ResolvedCount # call.data)
        /\ ret.status \in {"ok", "ValueError"}
        /\ ret.status = "ok" => Len(ret.sample_ids) = ResolvedCount

\* a patch-mode get_ids over a list field resolves more ids than the data
\* has rows and raises
C13_Witness ==
    /\ GetIdsDone
    /\ patches_field
    /\ call.is_list_field
    /\ call.data # NoData
    /\ ResolvedCount > call.data
    /\ ret.status = "ValueError"

AddToIndexDone == pc = "done" /\ call.op = "add_to_index"

\* the vectors of an add_to_index call, by the id they are keyed with
CallVectors == IF patches_field THEN call.label_ids.v ELSE call.sample_ids.v

RECURSIVE Concat(_)
Concat(pages) == IF pages = <<>> THEN <<>> ELSE Head(pages) \o Concat(Tail(pages))

\* the least number of pages of size p that hold n vectors
Ceil(n, p) == CHOOSE s \in 0 .. n : s * p >= n /\ \A t \in 0 .. n : t * p >= n => s <= t

\* C14: an upsert of n vectors with page size p that no write fails issues
\* exactly ceil(n/p) backend writes, in input order, each of p vectors
\* except a last one of 1..p, and the written pages concatenate to the
\* input sequence; no write when n = 0
C14_UpsertPagination ==
    (AddToIndexDone /\ ret.status = "ok") =>
        LET n == Len(CallVectors)
            p == upsert_pagination
            w == ret.writes
        IN /\ Len(w) = Ceil(n, p)
           /\ ret.attempts = [i \in 1 .. Len(w) |-> i]
           /\ \A i \in 1 .. Len(w) - 1 : Len(w[i]) = p
           /\ Len(w) > 0 => Len(w[Len(w)]) \in 1 .. p
           /\ Concat(w) = CallVectors
           /\ n = 0 => w = <<>>

\* an upsert wrote a full page and then a smaller last page
C14_Witness ==
    /\ AddToIndexDone
    /\ ret.status = "ok"
    /\ Len(ret.writes) = 2
    /\ Len(ret.writes[1]) = upsert_pagination
    /\ Len(ret.writes[2]) < upsert_pagination

\* C15: when the backend fails on the j-th page of an upsert, the caller
\* gets the error, the pages 1..j-1 are written and stay in the backend,
\* the pages 1..j are each handed to the backend once and in order, and no
\* page after j is
C15_UpsertAbortsOnFailure ==
    (AddToIndexDone /\ ret.fail > 0) =>
        LET j == ret.fail
            pages == Pages(CallVectors, upsert_pagination)
        IN /\ ret.status = "BackendError"
           /\ ret.attempts = [i \in 1 .. j |-> i]
           /\ ret.writes = SubSeq(pages, 1, j - 1)
           /\ backend = pre.backend \cup PageIds(pages, j - 1)

\* the backend failed on the second of three pages
C15_Witness ==
    /\ AddToIndexDone
    /\ ret.fail = 2
    /\ Len(Pages(CallVectors, upsert_pagination)) = 3
    /\ ret.status = "BackendError"
    /\ Len(ret.writes) = 1
    /\ ~(Range(CallVectors) \subseteq backend)

QueryDone == pc = "done" /\ call.op = "_sort_by_similarity"

\* C16: the Pinecone backend declares that it supports neither
\* least-similarity nor aggregate queries, and a query with reverse=True or
\* with an aggregation is rejected with an error, reaches no backend call
\* and returns no result, whatever the other arguments are
C16_ReverseAggregationRejected ==
    /\ ~supports_least_similarity
    /\ ~supports_aggregate_queries
    /\ (QueryDone /\ (call.reverse \/ call.aggregation # "None")) =>
           /\ ret.status = "ValueError"
           /\ ret.backend_calls = <<>>
           /\ ret.ids = <<>>
           /\ ret.dists = None

\* a query that is fine but for its aggregation is rejected for it
C16_Witness ==
    /\ QueryDone
    /\ ~call.reverse
    /\ call.aggregation # "None"
    /\ call.k \in 1 .. max_k
    /\ call.query.kind = "vector"
    /\ ret.status = "ValueError"
    /\ ret.error = "aggregation"

\* C17: a query with k above max_k is rejected as a caller error before
\* any backend call; every query sent to the backend carries top_k equal
\* to the requested k, which is at most max_k
C17_MaxK ==
    QueryDone =>
        /\ (call.k # NoK /\ call.k > max_k) =>
               /\ ret.status = "ValueError"
               /\ ret.backend_calls = <<>>
        /\ \A n \in 1 .. Len(ret.backend_calls) :
               ret.backend_calls[n].op = "query" =>
                   /\ ret.backend_calls[n].top_k = call.k
                   /\ ret.backend_calls[n].top_k <= max_k
        /\ ret.status = "ok" =>
               \E n \in 1 .. Len(ret.backend_calls) : ret.backend_calls[n].op = "query"

\* a query that is fine but for k = max_k + 1 is rejected for its k
C17_Witness ==
    /\ QueryDone
    /\ call.k = max_k + 1
    /\ ~call.reverse
    /\ call.aggregation = "None"
    /\ call.query.kind = "id"
    /\ ret.status = "ValueError"
    /\ ret.error = "max_k"

\* the ids of the view in use
VisibleIds ==
    IF ~call.current_label_ids.none THEN Range(call.current_label_ids.v)
    ELSE Range(call.current_sample_ids)

\* C18: every id a similarity query returns is one of the ranked ids of
\* the backend's response and an id of the view in use, and at most k ids
\* are returned
C18_ReturnedIdsFromResponse ==
    (QueryDone /\ ret.status = "ok") =>
        /\ Range(ret.ids) \subseteq Range(ret.response)
        /\ Range(ret.ids) \subseteq VisibleIds
        /\ Len(ret.ids) <= call.k

FromDictDone == pc = "done" /\ call.op = "_from_dict"

\* C19: after _from_dict every persisted config attribute has the value
\* that was persisted for it: the one the dict holds, or, when the dict
\* holds none, the one of the config it was handed
C19_FromDictPreservesConfig ==
    FromDictDone =>
        \A n \in 1 .. Len(config_attrs) :
            LET attr == config_attrs[n]
            IN ret.config[attr] =
                   IF call.d[attr] \notin {NotInDict, Null} THEN call.d[attr]
                   ELSE call.config[attr]

\* C20: add with allow_existing=False and warn_existing=False, given a
\* batch with at least one id that the index already holds, raises an
\* error for either value of overwrite, and the id the message names is an
\* incoming id that the index already holds
C20_AddRaisesNamingPresentId ==
    (/\ AddDone
     /\ ~call.allow_existing
     /\ ~call.warn_existing
     /\ Range(CallKeyIds) \cap Range(PreKey) # {}) =>
        /\ ret.status = "ValueError"
        /\ ~ret.error.none
        /\ ret.error.v.example \in Range(CallKeyIds) \cap Range(PreKey)

\* add with overwrite=False, allow_existing=False of an id the index holds
\* returns without an error
C20_NoRaiseWithoutOverwrite ==
    /\ AddDone
    /\ ~call.overwrite
    /\ ~call.allow_existing
    /\ ~call.warn_existing
    /\ Range(CallKeyIds) \cap Range(PreKey) # {}
    /\ ret.status = "ok"

\* add with overwrite=True, allow_existing=False raises and names an id
\* the index does not hold
C20_NamesNewId ==
    /\ AddDone
    /\ call.overwrite
    /\ ~call.allow_existing
    /\ ~call.warn_existing
    /\ ret.status = "ValueError"
    /\ ret.error.v.example \notin Range(PreKey)

\* C21: add is append-only: after an add that completes, every position
\* below the old index length holds the id (and, in a patch index, the
\* sample id) it held before, and the positions from the old length on
\* hold exactly the incoming entries whose id the old index lacks, in
\* incoming order
C21_AddAppendOnly ==
    (AddDone /\ ret.status = "ok") =>
        LET n == Len(pre.index_sample_ids)
            new == NewIds(CallKeyIds, PreKey)
        IN /\ Len(index_sample_ids) >= n
           /\ SubSeq(index_sample_ids, 1, n) = pre.index_sample_ids
           /\ SubSeq(CurKey, 1, Len(PreKey)) = PreKey
           /\ SubSeq(CurKey, Len(PreKey) + 1, Len(CurKey)) = new
           /\ patches_field =>
                  SubSeq(index_sample_ids, n + 1, Len(index_sample_ids))
                      = SamplesOf(new)

\* an add without overwrite of a batch that holds an id of the index and
\* a new id after it appended the new id alone
C21_Witness ==
    /\ AddDone
    /\ ret.status = "ok"
    /\ ~call.overwrite
    /\ Len(PreKey) > 0
    /\ Len(CallKeyIds) = 2
    /\ CallKeyIds[1] \in Range(PreKey)
    /\ CallKeyIds[2] \notin Range(PreKey)
    /\ Len(CurKey) = Len(PreKey) + 1

\* C22: an add that completes returns position lists ii and jj of equal
\* length, and for every k the updated index holds at position jj[k] the
\* incoming entry at position ii[k]: its sample id, and in patch mode its
\* label id as well
C22_AddPermutation ==
    (AddDone /\ ret.status = "ok") =>
        /\ Len(ret.ii) = Len(ret.jj)
        /\ \A k \in 1 .. Len(ret.jj) :
              /\ ret.ii[k] \in 0 .. Len(call.sample_ids.v) - 1
              /\ ret.jj[k] \in 0 .. Len(index_sample_ids) - 1
              /\ At(index_sample_ids, ret.jj[k]) = At(call.sample_ids.v, ret.ii[k])
              /\ patches_field =>
                    At(index_label_ids, ret.jj[k]) = At(call.label_ids.v, ret.ii[k])

\* the first entry add wrote is not the first incoming entry
C22_Witness ==
    /\ AddDone
    /\ ret.status = "ok"
    /\ Len(ret.ii) > 0
    /\ ret.ii[1] > 0
    /\ At(index_sample_ids, ret.jj[1]) # At(call.sample_ids.v, 0)

\* C23: when add or remove ends with an error, the index arrays the next
\* call sees are the ones before the failed call
C23_FailureLeavesArrays ==
    ((AddDone \/ RemoveDone) /\ ret.status # "ok") =>
        /\ index_sample_ids = pre.index_sample_ids
        /\ index_label_ids = pre.index_label_ids

\* a remove failed on a missing id after it had found another of its ids
C23_Witness ==
    /\ RemoveDone
    /\ ret.status # "ok"
    /\ LET targets == IF call.label_ids.none THEN call.sample_ids.v
                      ELSE call.label_ids.v
           held == IF call.label_ids.none THEN pre.index_sample_ids
                   ELSE pre.index_label_ids
       IN /\ Range(targets) \cap Range(held) # {}
          /\ ~(Range(targets) \subseteq Range(held))

\* an add failed with an IndexError on an index that holds ids
C23_WitnessAdd ==
    /\ AddDone
    /\ ret.status = "IndexError"
    /\ Len(pre.index_sample_ids) > 0

\* the target ids of a remove call that names ids of one kind, and the
\* index array they are looked up in
RemoveTargets == IF call.label_ids.none THEN call.sample_ids.v ELSE call.label_ids.v

RemoveHeld == IF call.label_ids.none THEN pre.index_sample_ids ELSE pre.index_label_ids

OneKind == call.sample_ids.none \/ call.label_ids.none

\* C24: remove with allow_missing=False and a target id that the index
\* lacks fails with a ValueError that reports the number of missing ids
\* and one of them, and removes nothing; with allow_missing=True the
\* missing ids are ignored and every found id is removed
C24_RemoveMissingPolicy ==
    (RemoveDone /\ OneKind) =>
        /\ (~call.allow_missing /\ ~(Range(RemoveTargets) \subseteq Range(RemoveHeld))) =>
               /\ ret.status = "ValueError"
               /\ ret.missing_ids # <<>>
               /\ Range(ret.missing_ids) \subseteq Range(RemoveTargets) \ Range(RemoveHeld)
               /\ index_sample_ids = pre.index_sample_ids
               /\ index_label_ids = pre.index_label_ids
        /\ (call.allow_missing /\ IsUnique(RemoveHeld)) =>
               /\ ret.status = "ok"
               /\ Range(IF call.label_ids.none THEN index_sample_ids ELSE index_label_ids)
                      = Range(RemoveHeld) \ Range(RemoveTargets)

\* the fields a logged warning carries
HasCountAndExample(w, offending) ==
    /\ "count" \in DOMAIN w
    /\ "example" \in DOMAIN w
    /\ w.count = Cardinality(offending)
    /\ w.example \in offending

\* C25: whenever warn-and-continue is selected and an offending id
\* exists, a warning is logged, and it carries the count of the offending
\* ids and one of them: filter_ids and remove with allow_missing and
\* warn_missing, add with allow_existing=False and warn_existing
C25_WarningsCountAndExample ==
    /\ (FilterDone /\ call.allow_missing /\ call.warn_missing
            /\ ~(Range(CallKeyIds) \subseteq Range(PreKey))) =>
           \E n \in 1 .. Len(ret.parsed.warnings) :
               HasCountAndExample(ret.parsed.warnings[n],
                                  Range(CallKeyIds) \ Range(PreKey))
    /\ (RemoveDone /\ OneKind /\ call.allow_missing /\ call.warn_missing
            /\ ~(Range(RemoveTargets) \subseteq Range(RemoveHeld))) =>
           /\ ~ret.warning.none
           /\ HasCountAndExample(ret.warning.v,
                                 Range(RemoveTargets) \ Range(RemoveHeld))
    /\ (AddDone /\ ~call.allow_existing /\ call.warn_existing
            /\ Range(CallKeyIds) \cap Range(PreKey) # {}) =>
           /\ ~ret.warning.none
           /\ HasCountAndExample(ret.warning.v,
                                 Range(CallKeyIds) \cap Range(PreKey))

\* C26: the count filter_ids reports as index ids missing from the
\* collection is the number of index entries whose id does not occur in
\* the view, the count it reports as collection ids missing from the index
\* is the number of view entries whose id does not occur in the index, and
\* neither count is negative
C26_MissingCounts ==
    FilterDone =>
        /\ ret.parsed.num_missing_index =
               Cardinality({n \in 1 .. Len(PreKey) : PreKey[n] \notin Range(CallKeyIds)})
        /\ ret.parsed.num_missing_collection =
               Cardinality({n \in 1 .. Len(CallKeyIds) : CallKeyIds[n] \notin Range(PreKey)})
        /\ ret.parsed.num_missing_index >= 0
        /\ ret.parsed.num_missing_collection >= 0

\* C26 on an index whose ids are unique, for a view whose ids are unique
C26_MissingCountsUnique ==
    (IsUnique(PreKey) /\ IsUnique(CallKeyIds)) => C26_MissingCounts

\* C27: get_ids over a list-valued patches field emits for each sample, in
\* collection order, its label ids in the order of its list, each paired
\* with the id of the sample; a sample without labels contributes nothing
\* under "skip" and the one pair (sample id, None) under "image"; the two
\* returned sequences have equal length
C27_FlattenPerSample ==
    (GetIdsDone /\ patches_field /\ call.is_list_field
        /\ call.ref_sample_ids.none /\ call.data = NoData) =>
        LET image == call.handle_missing = "image"
            lists == Values(call.samples, "lids")
            out_s == ret.sample_ids
            out_l == ret.label_ids.v
        IN /\ ret.status = "ok"
           /\ Len(out_s) = Len(out_l)
           /\ Len(out_s) = SumLens(lists, image)
           /\ \A k \in 1 .. Len(lists) :
                 LET off == SumLens(SubSeq(lists, 1, k - 1), image)
                 IN /\ \A j \in 1 .. Len(lists[k]) :
                          /\ out_s[off + j] = call.samples[k].id
                          /\ out_l[off + j] = lists[k][j]
                    /\ (lists[k] = <<>> /\ image) =>
                          /\ out_s[off + 1] = call.samples[k].id
                          /\ out_l[off + 1] = NoLabel

\* under "image" a sample without labels was followed by a sample with
\* two labels
C27_Witness ==
    /\ GetIdsDone
    /\ patches_field
    /\ call.is_list_field
    /\ call.ref_sample_ids.none
    /\ call.data = NoData
    /\ call.handle_missing = "image"
    /\ Len(call.samples) = 2
    /\ call.samples[1].lids = <<>>
    /\ Len(call.samples[2].lids) = 2
    /\ ret.status = "ok"
    /\ Len(ret.sample_ids) = 3

GetEmbeddingsDone == pc = "done" /\ call.op = "get_embeddings"

\* the ids of the samples an embedding was supplied for, in collection order
EmbeddedIds ==
    LET ids == Values(call.samples, "id")
    IN MaskSelect(ids, [k \in 1 .. Len(ids) |-> k \in call.present])

\* C28: at sample granularity, when the supplied list or mapping lacks an
\* embedding for some samples, get_embeddings returns embeddings and
\* sample ids of equal length, the k-th embedding is the one supplied for
\* the k-th id, the ids are in collection order, and no sample without an
\* embedding is among them
C28_SkipMissingEmbeddings ==
    (GetEmbeddingsDone /\ ~patches_field /\ call.kind \in {"list", "dict"}) =>
        /\ ret.status = "ok"
        /\ Len(ret.embeddings) = Len(ret.sample_ids)
        /\ ret.sample_ids = EmbeddedIds
        /\ \A k \in 1 .. Len(ret.sample_ids) : ret.embeddings[k] = ret.sample_ids[k]
        /\ ret.label_ids = None

\* the first of two samples has no embedding and the second is returned
C28_Witness ==
    /\ GetEmbeddingsDone
    /\ ~patches_field
    /\ call.kind = "dict"
    /\ Len(call.samples) = 2
    /\ call.present = {2}
    /\ ret.status = "ok"
    /\ ret.sample_ids = <<call.samples[2].id>>
    /\ ret.embeddings = <<call.samples[2].id>>

\* C29: on a patch index, remove called with sample ids S removes every
\* position whose sample id is in S, from both arrays, so that afterwards
\* no entry of the index's sample ids is in S
C29_RemoveBySampleIds ==
    (RemoveDone /\ patches_field /\ ~call.sample_ids.none /\ call.label_ids.none
        /\ call.allow_missing /\ IsUnique(pre.index_label_ids)) =>
        /\ ret.status = "ok"
        /\ Range(index_sample_ids) \cap Range(call.sample_ids.v) = {}
        /\ index_sample_ids = Survivors(pre.index_sample_ids, pre.index_sample_ids,
                                        Range(call.sample_ids.v))
        /\ index_label_ids = Survivors(pre.index_label_ids, pre.index_sample_ids,
                                       Range(call.sample_ids.v))

SkipIdsDone == pc = "done" /\ call.op = "skip_ids"

\* the ids of a collection: its label ids in patch mode, else its sample ids
IdsOf(samples) ==
    IF patches_field
    THEN UNION {Range(samples[k].lids) : k \in 1 .. Len(samples)}
    ELSE Range(Values(samples, "id"))

\* C30: skip_ids returns a collection that holds none of the ids of the
\* skip set and every sample (in patch mode, every label) of the input
\* whose id is not in the skip set, and the count of its warning is the
\* number of input ids that are in the skip set
C30_SkipIds ==
    SkipIdsDone =>
        /\ IdsOf(ret.samples) \cap call.skip = {}
        /\ IdsOf(call.samples) \ call.skip \subseteq IdsOf(ret.samples)
        /\ ~ret.warning.none =>
               ret.warning.v.count = Cardinality(IdsOf(call.samples) \cap call.skip)

====
